---- MODULE Spec2Model ----
(***************************************************************************)
(* State-machine model of the two rendering helpers of drei-vanilla:       *)
(*   - CubeCamera (src/src/core/CubeCamera.ts): the closure returned by    *)
(*     CubeCamera(renderer, scene, props) and its update() function;       *)
(*   - Fisheye (src/unnamed/part_000, lines 258-418): the Fisheye class.   *)
(* The two components share no state; each has its own specification       *)
(* (SpecCube, SpecFisheye) over the same variables.                        *)
(***************************************************************************)
EXTENDS Integers, FiniteSets, Sequences, TLC

VARIABLES
    \* ---- CubeCamera: one scene shared by the instances of the story ----
    frames,           \* frames[i]: the destructured constructor argument
    params,           \* params[i]: the mutable params object (envMap, fog)
    count,            \* count[i]: the closure's frame counter
    groupVisible,     \* groupVisible[i]: group.visible of instance i
    sceneFog,         \* scene.fog
    sceneBackground,  \* scene.background
    calls,            \* calls[i]: number of update() calls made so far
    last,             \* what the most recent update() call did
    \* ---- Fisheye: one instance ----
    resolution,       \* this.resolution
    zoom,             \* this.zoom, in hundredths (the GUI's step is 0.01)
    targets,          \* every WebGLCubeRenderTarget created so far, in order:
                      \* targets[id] = [width, disposed (number of dispose() calls)]
    renderTarget,     \* this.renderTarget (an id of targets)
    cubeCameraTarget, \* this.cubeCamera.renderTarget
    materialEnvMap,   \* this.sphereMesh.material.envMap, as the id of its target
    orthoCamera,      \* this.orthoCamera: left, right, top, bottom, zoom,
                      \* positionZ and worldZ (z of its matrixWorld)
    sphereScale,      \* this.sphereMesh.scale (uniform), in thousandths
    sphereRadius,     \* this.temp.sphere.radius, in thousandths
    cubeCamera,       \* this.cubeCamera: position, quaternion (as a rotation
                      \* matrix) and matrixWorld
    raycaster,        \* the host's raycaster: ray origin, ray direction, camera
    viewport,         \* the (w, h) most recently given to onResize
    resizedZoom,      \* the value this.zoom had at the most recent onResize
    rendered,         \* the source camera pose at the most recent render()
    lastOp            \* the most recent operation on the instance

cubeVars == <<frames, params, count, groupVisible, sceneFog, sceneBackground,
              calls, last>>

fisheyeVars == <<resolution, zoom, targets, renderTarget, cubeCameraTarget,
                 materialEnvMap, orthoCamera, sphereScale, sphereRadius,
                 cubeCamera, raycaster, viewport, resizedZoom, rendered, lastOp>>

vars == <<cubeVars, fisheyeVars>>

-----------------------------------------------------------------------------
(* Bounds of the model *)

MaxCalls == 2
MaxFrames == 1

-----------------------------------------------------------------------------
(* CubeCamera *)

\* The two instances the story creates on one scene (sphere1, sphere2).
Instances == {1, 2}

\* frames = Infinity: no frame budget.
Infinity == -1

\* undefined / null: a falsy value of a texture or fog slot.
None == "none"

FramesSet == (0..MaxFrames) \cup {Infinity}

\* Values the host gives scene.fog and scene.background.
SceneFogs == {None, "sceneFog"}
SceneBackgrounds == {None, "sceneBackground"}

\* Values of params.envMap and params.fog of instance i: instance 1 is built
\* with every combination of the two overrides set or unset, instance 2 with
\* overrides of its own, different from those of instance 1.
EnvMaps(i) == IF i = 1 THEN {None, "envMap1"} ELSE {"envMap2"}
Fogs(i) == IF i = 1 THEN {None, "fog1"} ELSE {"fog2"}

\* custom || original
Override(custom, original) == IF custom # None THEN custom ELSE original

\* if (frames === Infinity || count < frames)
ShouldCapture(f, c) == f = Infinity \/ c < f

NoCall == [inst |-> 0, captured |-> FALSE, outcome |-> "none",
           seenFog |-> None, seenBackground |-> None, seenVisible |-> TRUE]

InitCubeVars ==
    /\ frames \in [Instances -> FramesSet]
    /\ params \in {p \in [Instances -> [envMap : EnvMaps(1) \cup EnvMaps(2),
                                        fog : Fogs(1) \cup Fogs(2)]] :
                     \A i \in Instances : /\ p[i].envMap \in EnvMaps(i)
                                          /\ p[i].fog \in Fogs(i)}
    /\ count = [i \in Instances |-> 0]
    /\ groupVisible = [i \in Instances |-> TRUE]
    /\ sceneFog = None
    /\ sceneBackground = None
    /\ calls = [i \in Instances |-> 0]
    /\ last = NoCall

\* scene.fog = originalFog; scene.background = originalBackground
RestoredMutant(original, during) == during
Restored(original, during) == original

\* group.visible = true, after the capture
VisibleAfterCapture(before) == TRUE

\* count++ (reached only when camera.update returned)
CountAfterCapture(c) == c + 1

\* update() of instance i; outcome is what camera.update(renderer, scene)
\* does when it is called: it returns ("ok") or it throws ("throw").
Update(i, outcome) ==
    /\ calls[i] < MaxCalls
    /\ calls' = [calls EXCEPT ![i] = @ + 1]
    /\ IF ShouldCapture(frames[i], count[i])
       THEN LET originalFog == sceneFog
                originalBackground == sceneBackground
                duringBackground == Override(params[i].envMap, originalBackground)
                duringFog == Override(params[i].fog, originalFog)
                duringVisible == [groupVisible EXCEPT ![i] = FALSE]
            IN  /\ last' = [inst |-> i, captured |-> TRUE, outcome |-> outcome,
                            seenFog |-> duringFog,
                            seenBackground |-> duringBackground,
                            seenVisible |-> duringVisible[i]]
                /\ IF outcome = "ok"
                   THEN /\ sceneFog' = Restored(originalFog, duringFog)
                        /\ sceneBackground' =
                               Restored(originalBackground, duringBackground)
                        /\ groupVisible' = [duringVisible EXCEPT
                                              ![i] = VisibleAfterCapture(groupVisible[i])]
                        /\ count' = [count EXCEPT ![i] = CountAfterCapture(@)]
                   ELSE \* the exception leaves update() at line 58
                        /\ sceneFog' = duringFog
                        /\ sceneBackground' = duringBackground
                        /\ groupVisible' = duringVisible
                        /\ count' = count
       ELSE /\ outcome = "ok"
            /\ last' = [NoCall EXCEPT !.inst = i, !.outcome = "ok",
                                      !.seenVisible = groupVisible[i]]
            /\ UNCHANGED <<sceneFog, sceneBackground, groupVisible, count>>
    /\ UNCHANGED <<frames, params>>
    /\ UNCHANGED fisheyeVars

\* The host assigns scene.fog (story: scene.fog = new THREE.Fog(...)).
HostSetFog(v) ==
    /\ v # sceneFog
    /\ sceneFog' = v
    /\ UNCHANGED <<frames, params, count, groupVisible, sceneBackground, calls, last>>
    /\ UNCHANGED fisheyeVars

\* The host assigns scene.background.
HostSetBackground(v) ==
    /\ v # sceneBackground
    /\ sceneBackground' = v
    /\ UNCHANGED <<frames, params, count, groupVisible, sceneFog, calls, last>>
    /\ UNCHANGED fisheyeVars

\* The host shows or hides the returned group.
HostSetVisible(i, b) ==
    /\ b # groupVisible[i]
    /\ groupVisible' = [groupVisible EXCEPT ![i] = b]
    /\ UNCHANGED <<frames, params, count, sceneFog, sceneBackground, calls, last>>
    /\ UNCHANGED fisheyeVars

-----------------------------------------------------------------------------
(* Fixed-point arithmetic.  Lengths of the sphere scene and of the world   *)
(* are integers in thousandths of a unit; zoom is in hundredths.  Pointer  *)
(* coordinates (normalized device coordinates) are in halves: <<2, 2>> is  *)
(* the corner (1, 1) of the viewport, <<3, 0>> lies outside it.            *)

\* a / b rounded toward zero
DivT(a, b) == IF a >= 0 THEN a \div b ELSE -((-a) \div b)

\* a / b rounded up, for a >= 0
DivUp(a, b) == (a + b - 1) \div b

RECURSIVE SqrtSearch(_, _, _)
SqrtSearch(n, lo, hi) ==
    IF lo >= hi THEN lo
    ELSE LET mid == (lo + hi + 1) \div 2
         IN  IF mid * mid <= n THEN SqrtSearch(n, mid, hi)
                               ELSE SqrtSearch(n, lo, mid - 1)

\* Math.sqrt, rounded down and rounded up
SqrtDown(n) == SqrtSearch(n, 0, 46340)
SqrtUp(n) == LET r == SqrtDown(n) IN IF r * r = n THEN r ELSE r + 1

Dot(a, b) == a[1] * b[1] + a[2] * b[2] + a[3] * b[3]

\* Vector3.normalize(): divideScalar(length() || 1)
Normalize(v) ==
    LET len == SqrtDown(Dot(v, v))
    IN  IF len = 0 THEN v
        ELSE <<DivT(v[1] * 1000, len), DivT(v[2] * 1000, len), DivT(v[3] * 1000, len)>>

\* Vector3.reflect(normal): this - 2 * dot(this, normal) * normal
Reflect(v, n) ==
    LET d == DivT(Dot(v, n), 1000)
    IN  <<v[1] - DivT(2 * d * n[1], 1000),
          v[2] - DivT(2 * d * n[2], 1000),
          v[3] - DivT(2 * d * n[3], 1000)>>

MultiplyScalar(v, k) == <<v[1] * k, v[2] * k, v[3] * k>>

\* 3x3 matrices, as rows
Identity3 == <<<<1, 0, 0>>, <<0, 1, 0>>, <<0, 0, 1>>>>
Column(m, j) == <<m[1][j], m[2][j], m[3][j]>>
Transpose(m) == <<Column(m, 1), Column(m, 2), Column(m, 3)>>
ApplyMatrix3(m, v) == <<Dot(m[1], v), Dot(m[2], v), Dot(m[3], v)>>
MulRow(r, b) == <<Dot(r, Column(b, 1)), Dot(r, Column(b, 2)), Dot(r, Column(b, 3))>>
Mul(a, b) == <<MulRow(a[1], b), MulRow(a[2], b), MulRow(a[3], b)>>

Cofactor(m, i, j) ==
    LET r1 == (i % 3) + 1
        r2 == ((i + 1) % 3) + 1
        c1 == (j % 3) + 1
        c2 == ((j + 1) % 3) + 1
    IN  m[r1][c1] * m[r2][c2] - m[r1][c2] * m[r2][c1]

Determinant(m) ==
    m[1][1] * Cofactor(m, 1, 1) + m[1][2] * Cofactor(m, 1, 2)
        + m[1][3] * Cofactor(m, 1, 3)

\* Matrix3.invert(): the adjugate over the determinant (the zero matrix
\* when the determinant is 0)
InvertEntry(m, det, i, j) == IF det = 0 THEN 0 ELSE DivT(Cofactor(m, j, i), det)
InvertRow(m, det, i) ==
    <<InvertEntry(m, det, i, 1), InvertEntry(m, det, i, 2), InvertEntry(m, det, i, 3)>>
Invert(m) ==
    LET det == Determinant(m)
    IN  <<InvertRow(m, det, 1), InvertRow(m, det, 2), InvertRow(m, det, 3)>>

\* Matrix3.getNormalMatrix(matrix4): setFromMatrix4(m).invert().transpose()
GetNormalMatrix(m) == Transpose(Invert(m))

\* Vector3.applyNormalMatrix(m): applyMatrix3(m).normalize()
ApplyNormalMatrix(v, m) == Normalize(ApplyMatrix3(m, v))

\* Rotations by a quarter turn about X and Y, and by a half turn about Y
RotX90 == <<<<1, 0, 0>>, <<0, 0, -1>>, <<0, 1, 0>>>>
RotY90 == <<<<0, 0, 1>>, <<0, 1, 0>>, <<-1, 0, 0>>>>
RotY180 == <<<<-1, 0, 0>>, <<0, 1, 0>>, <<0, 0, -1>>>>

-----------------------------------------------------------------------------
(* Fisheye *)

MaxTargets == 3

\* Cube face resolutions (the GUI offers 256..1024, the default is 896).
Resolutions == {256, 896}

\* Zoom factors, in hundredths.
ZoomSet == {0, 50, 100}

\* Viewports (width, height) in pixels; the constructor uses (100, 100).
ConstructorViewport == <<100, 100>>
Viewports == {ConstructorViewport, <<800, 600>>, <<300, 400>>}

\* Pointers, in halves of a normalized device coordinate.
Pointers == {<<0, 0>>, <<2, 2>>, <<1, -1>>, <<3, 0>>}

\* World transforms (matrixWorld) of the source camera given to render().
Poses == {[pos |-> <<0, 1000, 2000>>, rot |-> Identity3],
          [pos |-> <<0, 1000, 2000>>, rot |-> RotY90],
          [pos |-> <<3000, 0, -1000>>, rot |-> RotX90],
          [pos |-> <<3000, 0, -1000>>, rot |-> Mul(RotY90, RotX90)]}

\* createRenderTarget(resolution): a new WebGLCubeRenderTarget whose faces
\* are resolution x resolution, not yet disposed
createRenderTarget(r) == [width |-> r, disposed |-> 0]

\* this.renderTarget.dispose()
Dispose(ts, id) == [ts EXCEPT ![id].disposed = @ + 1]

\* if (resolution === this.renderTarget.width) return
SameResolutionMutant(r) == r = resolution
SameResolution(r) == r = targets[renderTarget].width

\* (Math.sqrt(w * w + h * h) / 100) * (0.5 + this.zoom / 2), in thousandths,
\* rounded up (a pointer on the rim of the disk is a hit: d2 > radius2 fails)
RadiusMutant(w, h, z) == DivUp(SqrtUp((w * w + h * h) * 100) * (50 + z), 100)
Radius(w, h, z) == DivUp(SqrtUp((w * w + h * h) * 100) * (100 + z), 200)

\* The orthographic camera after onResize(w, h): lines 356-363
OrthoAfterResizeMutant(cam, w, h) ==
    [cam EXCEPT !.positionZ = 100000, !.zoom = 100,
                !.left = -(w \div 2), !.right = w \div 2,
                !.top = -(h \div 2), !.bottom = h \div 2]
OrthoAfterResize(cam, w, h) ==
    [cam EXCEPT !.positionZ = 100000, !.zoom = 100,
                !.left = -(w \div 2), !.right = w \div 2,
                !.top = h \div 2, !.bottom = -(h \div 2)]

\* new THREE.OrthographicCamera(): left -1, right 1, top 1, bottom -1, zoom 1,
\* at the origin
NewOrthographicCamera ==
    [left |-> -1, right |-> 1, top |-> 1, bottom |-> -1, zoom |-> 1,
     positionZ |-> 0, worldZ |-> 0]

\* new THREE.CubeCamera(0.1, 1000, renderTarget)
NewCubeCamera ==
    [position |-> <<0, 0, 0>>, quaternion |-> Identity3,
     matrixWorld |-> [pos |-> <<0, 0, 0>>, rot |-> Identity3]]

\* new THREE.Raycaster()
NewRaycaster ==
    [origin |-> <<0, 0, 0>>, direction |-> <<0, 0, -1000>>, camera |-> None]

NoOp == [op |-> "constructor", pointer |-> <<0, 0>>, hit |-> FALSE,
         replaced |-> FALSE, afterRender |-> FALSE]

\* The effects of onResize(w, h) on the state it writes
ResizeEffects(w, h) ==
    /\ orthoCamera' = OrthoAfterResize(orthoCamera, w, h)
    /\ sphereScale' = Radius(w, h, zoom')
    /\ sphereRadius' = Radius(w, h, zoom')
    /\ viewport' = <<w, h>>
    /\ resizedZoom' = zoom'

\* The state after new Fisheye({resolution, zoom}), which ends with
\* this.onResize(100, 100)
InitFisheyeVars ==
    /\ resolution \in Resolutions
    /\ zoom \in ZoomSet
    /\ targets = <<createRenderTarget(resolution)>>
    /\ renderTarget = 1
    /\ cubeCameraTarget = 1
    /\ materialEnvMap = 1
    /\ orthoCamera = OrthoAfterResize(NewOrthographicCamera,
                                      ConstructorViewport[1], ConstructorViewport[2])
    /\ sphereScale = Radius(ConstructorViewport[1], ConstructorViewport[2], zoom)
    /\ sphereRadius = Radius(ConstructorViewport[1], ConstructorViewport[2], zoom)
    /\ cubeCamera = NewCubeCamera
    /\ raycaster = NewRaycaster
    /\ viewport = ConstructorViewport
    /\ resizedZoom = zoom
    /\ rendered = [valid |-> FALSE, pos |-> <<0, 0, 0>>, rot |-> Identity3]
    /\ lastOp = NoOp

\* onResize(width, height)
OnResize(vp) ==
    /\ zoom' = zoom
    /\ ResizeEffects(vp[1], vp[2])
    /\ lastOp' = [NoOp EXCEPT !.op = "onResize"]
    /\ UNCHANGED <<resolution, targets, renderTarget, cubeCameraTarget,
                   materialEnvMap, cubeCamera, raycaster, rendered>>
    /\ UNCHANGED cubeVars

\* The host assigns the public field: fisheye.zoom = value
SetZoom(z) ==
    /\ z # zoom
    /\ zoom' = z
    /\ lastOp' = [NoOp EXCEPT !.op = "setZoom"]
    /\ UNCHANGED <<resolution, targets, renderTarget, cubeCameraTarget,
                   materialEnvMap, orthoCamera, sphereScale, sphereRadius,
                   cubeCamera, raycaster, viewport, resizedZoom, rendered>>
    /\ UNCHANGED cubeVars

\* The GUI's zoom handler: fisheye.zoom = value, then
\* fisheye.onResize(window.innerWidth, window.innerHeight)
ZoomOnChange(z, window) ==
    /\ zoom' = z
    /\ ResizeEffects(window[1], window[2])
    /\ lastOp' = [NoOp EXCEPT !.op = "zoomOnChange"]
    /\ UNCHANGED <<resolution, targets, renderTarget, cubeCameraTarget,
                   materialEnvMap, cubeCamera, raycaster, rendered>>
    /\ UNCHANGED cubeVars

\* The effects of updateResolution(r) on the render target and its users
ResolutionEffects(r) ==
    IF SameResolution(r)
    THEN UNCHANGED <<targets, renderTarget, cubeCameraTarget, materialEnvMap>>
    ELSE /\ Len(targets) < MaxTargets
         /\ targets' = Append(Dispose(targets, renderTarget), createRenderTarget(r))
         /\ renderTarget' = Len(targets')
         /\ cubeCameraTarget' = renderTarget'
         /\ materialEnvMap' = renderTarget'

\* updateResolution(resolution)
UpdateResolution(r) ==
    /\ ResolutionEffects(r)
    /\ lastOp' = [NoOp EXCEPT !.op = "updateResolution",
                              !.replaced = ~SameResolution(r)]
    /\ UNCHANGED <<resolution, zoom, orthoCamera, sphereScale, sphereRadius,
                   cubeCamera, raycaster, viewport, resizedZoom, rendered>>
    /\ UNCHANGED cubeVars

\* The GUI's resolution handler: fisheye.resolution = value, then
\* fisheye.updateResolution(value)
ResolutionOnChange(r) ==
    /\ resolution' = r
    /\ ResolutionEffects(r)
    /\ lastOp' = [NoOp EXCEPT !.op = "resolutionOnChange",
                              !.replaced = ~SameResolution(r)]
    /\ UNCHANGED <<zoom, orthoCamera, sphereScale, sphereRadius,
                   cubeCamera, raycaster, viewport, resizedZoom, rendered>>
    /\ UNCHANGED cubeVars

\* camera.matrixWorld.decompose(t, r, s) of a rigid world transform
Decompose(pose) == [t |-> pose.pos, r |-> pose.rot, s |-> <<1, 1, 1>>]

\* this.temp.e = new THREE.Euler(0, Math.PI, 0); quaternion.setFromEuler(e)
SetFromEuler == RotY180

\* quaternion.setFromEuler(this.temp.e).premultiply(this.temp.r)
CaptureQuaternionMutant(r) == r
CaptureQuaternion(r) == Mul(r, SetFromEuler)

\* Object3D.matrixWorld of a parentless object: compose(position, quaternion)
Compose(position, quaternion) == [pos |-> position, rot |-> quaternion]

\* render(renderer, scene, camera); outcome is what the cube capture does:
\* it returns ("ok") or the renderer fails in it ("throw"), after
\* CubeCamera.update has brought the capture camera's matrixWorld up to date
\* and before the sphere is rendered.
Render(pose, outcome) ==
    LET d == Decompose(pose)
        position == d.t
        quaternion == CaptureQuaternion(d.r)
    IN  /\ cubeCamera' = [position |-> position, quaternion |-> quaternion,
                          matrixWorld |-> Compose(position, quaternion)]
        /\ orthoCamera' = IF outcome = "ok"
                          THEN [orthoCamera EXCEPT !.worldZ = orthoCamera.positionZ]
                          ELSE orthoCamera
        /\ rendered' = [valid |-> TRUE, pos |-> pose.pos, rot |-> pose.rot]
        /\ lastOp' = [NoOp EXCEPT !.op = "render"]
        /\ UNCHANGED <<resolution, zoom, targets, renderTarget, cubeCameraTarget,
                       materialEnvMap, sphereScale, sphereRadius, raycaster,
                       viewport, resizedZoom>>
        /\ UNCHANGED cubeVars

\* raycaster.setFromCamera(pointer, orthoCamera): the ray starts on the
\* camera's plane at the pointer and runs along -Z
SetFromCamera(pointer, cam) ==
    LET cx == ((cam.right + cam.left) * 1000) \div 2
        cy == ((cam.top + cam.bottom) * 1000) \div 2
    IN  [origin |-> <<cx + DivT(pointer[1] * (cam.right - cam.left) * 1000,
                                2 * 2 * cam.zoom),
                      cy + DivT(pointer[2] * (cam.top - cam.bottom) * 1000,
                                2 * 2 * cam.zoom),
                      cam.worldZ>>,
         direction |-> <<0, 0, -1000>>,
         camera |-> "orthoCamera"]

\* ray.intersectSphere(sphere, target) for a sphere at the origin and a ray
\* along -Z: tca is the ray's distance to the plane of the centre and d2 its
\* squared distance to the axis.
IntersectSphere(ray, radius) ==
    LET tca == ray.origin[3]
        d2 == ray.origin[1] * ray.origin[1] + ray.origin[2] * ray.origin[2]
        radius2 == radius * radius
        at(t) == <<ray.origin[1], ray.origin[2], ray.origin[3] - t>>
    IN  IF d2 > radius2 THEN [hit |-> FALSE, point |-> <<0, 0, 0>>]
        ELSE LET thc == SqrtDown(radius2 - d2)
             IN  IF tca + thc < 0 THEN [hit |-> FALSE, point |-> <<0, 0, 0>>]
                 ELSE IF tca - thc < 0 THEN [hit |-> TRUE, point |-> at(tca + thc)]
                 ELSE [hit |-> TRUE, point |-> at(tca - thc)]

\* raycaster.ray.direction.x *= -1
FlipX(v) == <<-v[1], v[2], v[3]>>

\* Lines 397-399: the direction of the pick ray from the hit normal
PickDirection(normal, normalMatrix) ==
    MultiplyScalar(
        ApplyNormalMatrix(FlipX(Reflect(<<0, 0, 1000>>, normal)), normalMatrix),
        -1)

\* What setFromCamera leaves in the raycaster when the ray misses the sphere
RayOnMiss(before, orthoRay) == orthoRay

\* computeRaycastRayDirection(raycaster, pointer)
Pick(pointer) ==
    \E orthoRay \in {SetFromCamera(pointer, orthoCamera)} :
    \E found \in {IntersectSphere(orthoRay, sphereRadius)} :
        /\ lastOp' = [NoOp EXCEPT !.op = "pick", !.pointer = pointer,
                                  !.hit = found.hit,
                                  !.afterRender = rendered.valid]
        /\ IF ~found.hit
           THEN /\ raycaster' = RayOnMiss(raycaster, orthoRay)
                /\ cubeCamera' = cubeCamera
           ELSE LET normal == Normalize(found.point)
                    normalMatrix == GetNormalMatrix(cubeCamera.matrixWorld.rot)
                    world == Compose(cubeCamera.position, cubeCamera.quaternion)
                IN  /\ raycaster' = [origin |-> world.pos,
                                     direction |-> PickDirection(normal, normalMatrix),
                                     camera |-> orthoRay.camera]
                    /\ cubeCamera' = [cubeCamera EXCEPT !.matrixWorld = world]
        /\ UNCHANGED <<resolution, zoom, targets, renderTarget, cubeCameraTarget,
                       materialEnvMap, orthoCamera, sphereScale, sphereRadius,
                       viewport, resizedZoom, rendered>>
        /\ UNCHANGED cubeVars

-----------------------------------------------------------------------------
(* Specifications *)

\* The Fisheye instance untouched, as built with the defaults.
IdleFisheye ==
    /\ InitFisheyeVars
    /\ resolution = 896
    /\ zoom = 0

\* No CubeCamera in use.
IdleCube ==
    /\ InitCubeVars
    /\ frames = [i \in Instances |-> Infinity]
    /\ params[1] = [envMap |-> None, fog |-> None]

InitCube == InitCubeVars /\ IdleFisheye

NextCube ==
    \/ \E i \in Instances, b \in BOOLEAN : HostSetVisible(i, b)
    \/ \E v \in SceneFogs : HostSetFog(v)
    \/ \E v \in SceneBackgrounds : HostSetBackground(v)
    \/ \E i \in Instances, outcome \in {"ok", "throw"} : Update(i, outcome)

SpecCube == InitCube /\ [][NextCube]_vars

InitFisheye == InitFisheyeVars /\ IdleCube

\* The render target, the viewport and the zoom: every operation of the
\* class but picking, which writes none of the state these operations read.
NextFisheye ==
    \/ \E vp \in Viewports : OnResize(vp)
    \/ \E z \in ZoomSet : SetZoom(z)
    \/ \E z \in ZoomSet : ZoomOnChange(z, viewport)
    \/ \E r \in Resolutions : UpdateResolution(r)
    \/ \E r \in Resolutions : ResolutionOnChange(r)
    \/ \E pose \in Poses, outcome \in {"ok", "throw"} : Render(pose, outcome)

SpecFisheye == InitFisheye /\ [][NextFisheye]_vars

\* Picking, on an instance built with the default resolution: resizing,
\* zooming through the GUI's handler, rendering and picking.  Picking reads
\* neither the render target nor this.zoom (only the radius onResize cached).
InitPick == InitFisheye /\ resolution = 896

NextPick ==
    \/ \E vp \in Viewports : OnResize(vp)
    \/ \E z \in ZoomSet : ZoomOnChange(z, viewport)
    \/ \E pose \in Poses, outcome \in {"ok", "throw"} : Render(pose, outcome)
    \/ \E pointer \in Pointers : Pick(pointer)

SpecPick == InitPick /\ [][NextPick]_vars

-----------------------------------------------------------------------------
(* CubeCamera: properties *)

\* C1: with a finite budget frames = k, the first k calls of update() each
\* perform a capture (camera.update) and every later call performs none and
\* leaves scene.fog, scene.background and group.visible alone; with
\* frames = Infinity every call captures.
C1_ExactlyKCaptures ==
    [][\A i \in Instances :
         calls'[i] = calls[i] + 1 =>
            IF frames[i] = Infinity
            THEN last'.captured
            ELSE /\ last'.captured <=> (calls[i] < frames[i])
                 /\ calls[i] >= frames[i] =>
                        UNCHANGED <<sceneFog, sceneBackground, groupVisible>>]_vars

\* C2: a call of update() that returns normally leaves scene.fog and
\* scene.background exactly as they were before the call, whether or not it
\* captured and whatever overrides the instance has.
C2_SceneRestored ==
    [][(calls' # calls /\ last'.outcome = "ok") =>
          (sceneFog' = sceneFog /\ sceneBackground' = sceneBackground)]_vars

\* Both instances have been updated on the one scene, and the most recent
\* call captured with both of its overrides in place and returned normally.
C2_Witness ==
    /\ calls[1] > 0
    /\ calls[2] > 0
    /\ last.captured
    /\ last.outcome = "ok"
    /\ last.seenFog \notin SceneFogs
    /\ last.seenBackground \notin SceneBackgrounds

\* C3: when camera.update throws during a capture, scene.fog,
\* scene.background and group.visible are back at their values from before
\* the call when update() exits.
C3_RestoredOnFailure ==
    [][(calls' # calls /\ last'.outcome = "throw") =>
          /\ sceneFog' = sceneFog
          /\ sceneBackground' = sceneBackground
          /\ groupVisible' = groupVisible]_vars

\* C9: the group is invisible while a capture is performed, and after
\* update() returns group.visible has the value it had before the call.
C9_GroupVisibilityUnchanged ==
    /\ [](last.captured => ~last.seenVisible)
    /\ [][(calls' # calls /\ last'.outcome = "ok") =>
             groupVisible' = groupVisible]_vars

-----------------------------------------------------------------------------
(* Fisheye: properties *)

\* The radius the specification gives for viewport (w, h) and zoom z:
\* (sqrt(w^2 + h^2) / 100) * (0.5 + z / 2), in thousandths, rounded up.
ClaimedRadius(w, h, z) == DivUp(SqrtUp((w * w + h * h) * 100) * (100 + z), 200)

\* The capture camera and the sphere material use the one installed target,
\* which is not disposed; every earlier target was disposed exactly once.
C4_SingleLiveTarget ==
    /\ cubeCameraTarget = renderTarget
    /\ materialEnvMap = renderTarget
    /\ \A id \in 1..Len(targets) :
          targets[id].disposed = IF id = renderTarget THEN 0 ELSE 1

\* updateResolution(r) replaces the target exactly when r differs from the
\* face size of the installed one.
C4_UpdateResolutionStep ==
    \A r \in Resolutions :
      UpdateResolution(r) =>
        IF r = targets[renderTarget].width
        THEN /\ targets' = targets
             /\ renderTarget' = renderTarget
             /\ cubeCameraTarget' = cubeCameraTarget
             /\ materialEnvMap' = materialEnvMap
        ELSE /\ Len(targets') = Len(targets) + 1
             /\ renderTarget' = Len(targets')
             /\ targets'[renderTarget'] = [width |-> r, disposed |-> 0]
             /\ \A id \in 1..Len(targets) :
                   /\ targets'[id].width = targets[id].width
                   /\ targets'[id].disposed =
                          targets[id].disposed + (IF id = renderTarget THEN 1 ELSE 0)
             /\ cubeCameraTarget' = renderTarget'
             /\ materialEnvMap' = renderTarget'

\* C4: updateResolution(r) replaces the cube render target if and only if r
\* differs from the face size of the installed target (disposing exactly the
\* prior one and creating exactly one); so the capture camera and the sphere
\* material always reference the same single undisposed target and every
\* earlier target has been disposed exactly once.
C4_TargetReplacedIffChanged ==
    /\ []C4_SingleLiveTarget
    /\ [][C4_UpdateResolutionStep]_vars

\* updateResolution has just replaced a target for the second time.
C4_Witness ==
    /\ lastOp.op = "updateResolution"
    /\ lastOp.replaced
    /\ Len(targets) = 3
    /\ renderTarget = 3

\* C5: right after onResize(w, h) the orthographic camera spans
\* (-w/2, w/2, h/2, -h/2) at zoom 100 and both the sphere's scale and the
\* cached sphere's radius are (sqrt(w^2 + h^2) / 100) * (0.5 + zoom / 2);
\* onResize(800, 600) gives 5 at zoom 0 and 10 at zoom 1.
C5_ResizeSetsCameraAndRadius ==
    [][\A vp \in Viewports :
         (lastOp'.op = "onResize" /\ viewport' = vp) =>
            /\ orthoCamera'.left = -(vp[1] \div 2)
            /\ orthoCamera'.right = vp[1] \div 2
            /\ orthoCamera'.top = vp[2] \div 2
            /\ orthoCamera'.bottom = -(vp[2] \div 2)
            /\ orthoCamera'.zoom = 100
            /\ sphereScale' = ClaimedRadius(vp[1], vp[2], zoom)
            /\ sphereRadius' = ClaimedRadius(vp[1], vp[2], zoom)
            /\ (vp = <<800, 600>> /\ zoom = 0) => sphereRadius' = 5000
            /\ (vp = <<800, 600>> /\ zoom = 100) => sphereRadius' = 10000]_vars

\* onResize(800, 600) has just run with zoom 1 and left the radius at 10.
C5_Witness ==
    /\ lastOp.op = "onResize"
    /\ viewport = <<800, 600>>
    /\ zoom = 100
    /\ orthoCamera.right = 400
    /\ sphereRadius = 10000

\* C6 (as stated): in every state reached through the constructor, onResize
\* and assignments to zoom, the sphere's radius is
\* (diagonal(viewport) / 100) * (0.5 + zoom / 2) for the most recent viewport
\* and the current zoom.
C6_RadiusFollowsZoom ==
    sphereScale = ClaimedRadius(viewport[1], viewport[2], zoom)

\* C6 (amended): the sphere's radius is the formula's value for the most
\* recent viewport and the value zoom had at the most recent onResize (the
\* constructor's included); an assignment to zoom alone does not change it.
C6_RadiusFollowsResize ==
    /\ sphereScale = ClaimedRadius(viewport[1], viewport[2], resizedZoom)
    /\ sphereRadius = sphereScale

\* zoom was assigned after the most recent onResize.
C6_Witness ==
    /\ lastOp.op = "setZoom"
    /\ zoom # resizedZoom
    /\ viewport # ConstructorViewport

\* C10: this.resolution is the face size of the installed render target,
\* after the constructor and after any updateResolution calls.
C10_ResolutionIsFaceSize ==
    resolution = targets[renderTarget].width

\* C7: a pick whose orthographic ray misses the cached sphere leaves the
\* raycaster (ray origin, ray direction, camera) as it was before the call.
C7_MissLeavesRaycaster ==
    [][(lastOp'.op = "pick" /\ ~lastOp'.hit) => raycaster' = raycaster]_vars

\* The forward direction (local -Z) of a camera whose world rotation is rot.
Forward(rot) == ApplyMatrix3(rot, <<0, 0, -1000>>)

\* C8: after at least one render(), a pick at the centre of the viewport
\* sets the ray's direction to the forward direction of the source camera
\* and the ray's origin to its world position, as of the most recent
\* render().
C8_CenterPickIsForward ==
    [][(lastOp'.op = "pick" /\ lastOp'.pointer = <<0, 0>> /\ rendered.valid) =>
          /\ lastOp'.hit
          /\ raycaster'.origin = rendered.pos
          /\ raycaster'.direction = Forward(rendered.rot)]_vars

\* A centre pick after a render with the source camera at (3, 0, -1),
\* pitched up by a quarter turn: the pick ray points up from there.
C8_Witness ==
    /\ lastOp.op = "pick"
    /\ lastOp.pointer = <<0, 0>>
    /\ lastOp.hit
    /\ lastOp.afterRender
    /\ raycaster.origin = <<3000, 0, -1000>>
    /\ raycaster.direction = <<0, 1000, 0>>

====
